---- MODULE Spec2Model ----
(***************************************************************************)
(* SafeAccess: the mask-detection pipeline (src/mask_system.py) and the    *)
(* session orchestrator (src/projeto_camera.py).                           *)
(*                                                                         *)
(* Time is the wall clock read by time.time(), counted in tenths of a      *)
(* second, so that every duration of the program is a whole number:        *)
(* infer_interval 0.1 s = 1, poll sleep 0.2 s = 2, hold_time 3.0 s = 30,   *)
(* session deadline 10 s = 100.  Confidences are counted in hundredths.    *)
(***************************************************************************)
EXTENDS Integers, Sequences, FiniteSets

VARIABLES
    now,            \* time.time()
    predictions,    \* self.predictions
    last_infer,     \* self.last_infer
    last_state,     \* self.last_state
    mask_start,     \* self.mask_start: <<>> is None, <<t>> is the time t
    access_granted, \* self.access_granted
    running,        \* self.running
    log,            \* messages emitted through self.log.info
    ticked,         \* history: the last step was a state-machine tick
    runStart,       \* history: time of the first tick of the current unbroken run of hasMask ticks
    grantsInRun,    \* history: false -> true changes of access_granted within that run
    interrupted,    \* history: a face-without-mask tick has cut a run shorter than hold_time
    failing,        \* history: from here on every inference cycle fails
    queue,          \* self.queue = Queue(maxsize=1): the frames pending
    frame_idx,      \* frame_idx of _process_frames
    cap_pc,         \* where the capture loop (_process_frames) stands
    wrk_pc,         \* where the inference worker (_infer_loop) stands
    prevStart,      \* history: start time of the network call before the last one
    lastStart,      \* history: start time of the last network call
    submits,        \* history: calls of _enqueue
    placed,         \* history: frames put in the queue
    netCalls,       \* history: network calls issued
    encFails,       \* history: frames dropped by _infer because imencode failed
    main_pc,        \* where main() of projeto_camera.py stands
    wake,           \* when main's current sleep or timed wait ends
    deadline,       \* deadline of main's poll loop
    inbox,          \* TAG lines waiting on the serial port
    serial_out,     \* lines main has written to the serial port
    det_wake,       \* when the sleep of _init_camera ends
    joined,         \* history: det_thr.join has returned for the current session
    authorized,     \* history: the TAG read last was a registered one
    signals,        \* history: ACESSO lines written since the last TAG was read
    earlyGrant,     \* history: access_granted went true more than a poll interval before the deadline
    everMask,       \* history: some snapshot published to this detector satisfied hasMask
    everHeld,       \* history: some tick of this detector evaluated hasMask with a hold of at least hold_time
    updates,        \* history: calls of _update_access made by _process_frames
    capFails,       \* history: iterations of _process_frames in which _capture returned None
    created,        \* history: MaskAccessSystem objects main has constructed
    prev_cap,       \* the detector thread of the session before the current one
    prev_wrk,       \* the inference worker of the session before the current one
    prev_start,     \* start time of the network call that worker is in
    prev_predictions, \* self.predictions of the detector of the session before the current one
    inboxLate,      \* history: for each line of inbox, whether it arrived while a session was active
    actedLate,      \* history: main has acted on a TAG line that arrived while a session was active
    arrived,        \* history: TAG lines that have arrived on the serial port
    adj_preds,      \* preds of _adjust
    adj_i,          \* the entry of preds the loop of _adjust visits next
    adjusted,       \* adjusted of _adjust
    tick_preds,     \* preds of _update_access, read from self.predictions
    lastComplete    \* history: the result of the last inference that completed successfully

accessVars == <<predictions, last_infer, last_state, mask_start, access_granted, running, log>>
histVars == <<ticked, runStart, grantsInRun, interrupted, failing, everHeld>>
pipeVars == <<queue, frame_idx, cap_pc, wrk_pc>>
pipeHist == <<prevStart, lastStart, submits, placed, netCalls, encFails, updates, capFails>>
sessVars == <<main_pc, wake, deadline, inbox, serial_out, det_wake, joined, earlyGrant,
              authorized, signals>>
handVars == <<created, prev_cap, prev_wrk, prev_start, prev_predictions, inboxLate, actedLate, arrived>>
snapVars == <<adj_preds, adj_i, adjusted, tick_preds, lastComplete>>
vars == <<now, accessVars, histVars, pipeVars, pipeHist, sessVars, everMask, handVars, snapVars>>

----------------------------------------------------------------------------
(* Config: src/mask_system.py, class Config *)

conf_threshold == 30
mask_conf_threshold == 70
frame_skip == 10
infer_interval == 1
request_timeout == 100
hold_time == 30

MASK_LABELS == {"face-mask"}
FACE_LABELS == {"face", "balaclava", "mask", "face covering"}

(* Bounds of the model *)
StartTime == 5      \* the clock at construction (time.time() is far from 0.0)
HoldWindow == 32    \* how long the state machine is watched, in tenths of a second
MaxLog == 2         \* log messages kept

None == <<>>

Det(cls, conf) == [class |-> cls, conf |-> conf]


----------------------------------------------------------------------------
(* MaskAccessSystem._update_access / _change_state *)

HasMask(preds) ==
    \E i \in 1..Len(preds) :
        preds[i].class \in MASK_LABELS /\ preds[i].conf >= mask_conf_threshold

HasFace(preds) ==
    \E i \in 1..Len(preds) :
        preds[i].class \in FACE_LABELS /\ preds[i].conf >= conf_threshold

\* the log after a _change_state that does not compare new_state with last_state
ChangeStateLogEveryTick(new_state, msg) ==
    IF msg # "" /\ Len(log) < MaxLog
    THEN Append(log, msg) ELSE log

\* the log after _change_state(new_state, msg): a message only on a change of state
ChangeStateLog(new_state, msg) ==
    IF new_state # last_state /\ msg # "" /\ Len(log) < MaxLog
    THEN Append(log, msg) ELSE log

\* now - self.mask_start > hold_time, in place of >=
HoldReachedStrict(t) == mask_start # None /\ t - mask_start[1] > hold_time

\* now - self.mask_start >= self.cfg.hold_time
HoldReached(t) == mask_start # None /\ t - mask_start[1] >= hold_time

\* the has_mask branch at time t without the comparison with hold_time
MaskBranchNoHold(t) ==
    IF mask_start = None
    THEN /\ mask_start' = <<t>>
         /\ UNCHANGED <<last_state, access_granted, log>>
    ELSE /\ log' = ChangeStateLog("liberado", "Acesso liberado")
         /\ last_state' = "liberado"
         /\ access_granted' = TRUE
         /\ UNCHANGED mask_start

\* the has_mask branch at time t
MaskBranch(t) ==
    IF mask_start = None
    THEN /\ mask_start' = <<t>>
         /\ UNCHANGED <<last_state, access_granted, log>>
    ELSE IF HoldReached(t)
    THEN /\ log' = ChangeStateLog("liberado", "Acesso liberado")
         /\ last_state' = "liberado"
         /\ access_granted' = TRUE
         /\ UNCHANGED mask_start
    ELSE UNCHANGED <<mask_start, last_state, access_granted, log>>

\* the has_face branch without self.mask_start = None
FaceBranchKeepsTimer ==
    /\ UNCHANGED mask_start
    /\ log' = ChangeStateLog("negado", "Acesso negado")
    /\ last_state' = "negado"
    /\ access_granted' = FALSE

\* the has_face branch with self.access_granted = True
FaceBranchGrants ==
    /\ mask_start' = None
    /\ log' = ChangeStateLog("negado", "Acesso negado")
    /\ last_state' = "negado"
    /\ access_granted' = TRUE

\* the has_face branch
FaceBranch ==
    /\ mask_start' = None
    /\ log' = ChangeStateLog("negado", "Acesso negado")
    /\ last_state' = "negado"
    /\ access_granted' = FALSE

\* the else branch with self.access_granted = False, as in the has_face branch
IdleBranchDenies ==
    /\ mask_start' = None
    /\ log' = ChangeStateLog("None", "")
    /\ last_state' = "None"
    /\ access_granted' = FALSE

\* the else branch: _change_state(None) has no message
IdleBranch ==
    /\ mask_start' = None
    /\ log' = ChangeStateLog("None", "")
    /\ last_state' = "None"
    /\ UNCHANGED access_granted

\* _update_access from has_mask on, for the list preds it has read and the
\* time t it has taken
UpdateAccessWith(preds, t) ==
    IF HasMask(preds) THEN MaskBranch(t)
    ELSE IF HasFace(preds) THEN FaceBranch
    ELSE IdleBranch

\* _update_access as one step: preds = self.predictions, now = time.time()
UpdateAccess == UpdateAccessWith(predictions, now)

\* what a tick adds to the history variables
TickHistory ==
    /\ ticked' = TRUE
    /\ runStart' = IF HasMask(predictions)
                   THEN (IF runStart = None THEN <<now>> ELSE runStart)
                   ELSE None
    /\ grantsInRun' = IF HasMask(predictions)
                      THEN (IF ~access_granted /\ access_granted' THEN grantsInRun + 1 ELSE grantsInRun)
                      ELSE 0
    /\ interrupted' = (interrupted \/
                        (HasFace(predictions) /\ ~HasMask(predictions) /\ runStart # None
                           /\ now - runStart[1] < hold_time))
    /\ everHeld' = (everHeld \/
                      (HasMask(predictions) /\ runStart # None /\ now - runStart[1] >= hold_time))
    /\ UNCHANGED failing

----------------------------------------------------------------------------
(* The inference backend's answers and MaskAccessSystem._adjust *)

\* one entry of the "predictions" array: a JSON object (complete or lacking a
\* box field), or a value that is no object
Raw(cls, conf) == [kind |-> "dict", class |-> cls, conf |-> conf, complete |-> TRUE]
RawNoBox(cls, conf) == [kind |-> "dict", class |-> cls, conf |-> conf, complete |-> FALSE]
RawNotDict == [kind |-> "notdict"]

\* str.lower() on the class labels the backend sends
Lower(cls) ==
    CASE cls = "Face-Mask" -> "face-mask"
      [] cls = "Face" -> "face"
      [] OTHER -> cls

\* the loop of _adjust from entry i on: an entry that is no dict raises out of
\* _adjust (AttributeError), one lacking a field is skipped (KeyError)
RECURSIVE AdjustFrom(_, _, _)
AdjustFrom(preds, i, acc) ==
    IF i > Len(preds)
    THEN [raised |-> FALSE, out |-> acc]
    ELSE IF preds[i].kind # "dict"
    THEN [raised |-> TRUE, out |-> <<>>]
    ELSE IF ~preds[i].complete
    THEN AdjustFrom(preds, i + 1, acc)
    ELSE AdjustFrom(preds, i + 1,
                    Append(acc, Det(Lower(preds[i].class), preds[i].conf)))

Adjust(preds) == AdjustFrom(preds, 1, <<>>)

\* an answer of the backend: the transport's outcome, the status, the body
Resp(net, status, body, haskey, preds) ==
    [net |-> net, status |-> status, body |-> body, haskey |-> haskey, preds |-> preds]

OkResp(preds) == Resp("ok", 200, "object", TRUE, preds)

Responses ==
    { Resp("error", 0, "none", FALSE, <<>>),         \* connection error
      Resp("timeout", 0, "none", FALSE, <<>>),       \* no answer within request_timeout
      Resp("ok", 500, "object", FALSE, <<>>),        \* non-2xx status
      Resp("ok", 200, "notjson", FALSE, <<>>),       \* body is not JSON
      Resp("ok", 200, "array", FALSE, <<>>),         \* JSON of another shape
      Resp("ok", 200, "object", FALSE, <<>>),        \* JSON object without "predictions"
      OkResp(<<Raw("face-mask", 95), RawNotDict>>),  \* an entry of the wrong type
      OkResp(<<>>),
      OkResp(<<Raw("Face-Mask", 95)>>),
      OkResp(<<RawNoBox("face-mask", 95), Raw("face", 80)>>) }

\* the kinds of answer the specification calls a failed inference cycle
FailureResponses ==
    { r \in Responses :
        \/ r.net # "ok"
        \/ r.status # 200
        \/ r.body # "object"
        \/ ~r.haskey
        \/ \E i \in 1..Len(r.preds) : r.preds[i].kind # "dict" }

\* the try block of _infer: post, raise_for_status, json().get("predictions", []),
\* _adjust; raised is TRUE when an exception reaches the except clause
InferResult(resp) ==
    IF resp.net # "ok" THEN [raised |-> TRUE, out |-> <<>>]
    ELSE IF resp.status # 200 THEN [raised |-> TRUE, out |-> <<>>]
    ELSE IF resp.body = "notjson" THEN [raised |-> TRUE, out |-> <<>>]
    ELSE IF resp.body # "object" THEN [raised |-> TRUE, out |-> <<>>]
    ELSE Adjust(IF resp.haskey THEN resp.preds ELSE <<>>)

----------------------------------------------------------------------------
(* The state machine alone: ticks of _update_access against whatever the    *)
(* worker last published, at any rate relative to the clock.                *)

InitFields ==
    /\ predictions = <<>>
    /\ last_infer = 0
    /\ last_state = "None"
    /\ mask_start = None
    /\ access_granted = FALSE
    /\ running = TRUE
    /\ log = <<>>

InitHist ==
    /\ ticked = FALSE
    /\ runStart = None
    /\ grantsInRun = 0
    /\ interrupted = FALSE
    /\ failing = FALSE
    /\ everHeld = FALSE

InitPipe ==
    /\ queue = <<>>
    /\ frame_idx = 0
    /\ cap_pc = "head"
    /\ wrk_pc = "head"
    /\ prevStart = None
    /\ lastStart = None
    /\ submits = 0
    /\ placed = 0
    /\ netCalls = 0
    /\ encFails = 0
    /\ updates = 0
    /\ capFails = 0

\* main() before any TAG line has been read
InitMain ==
    /\ main_pc = "read"
    /\ wake = 0
    /\ deadline = 0
    /\ inbox = <<>>
    /\ inboxLate = <<>>
    /\ arrived = 0
    /\ serial_out = <<>>
    /\ det_wake = 0
    /\ joined = FALSE
    /\ authorized = FALSE
    /\ signals = 0
    /\ earlyGrant = FALSE
    /\ everMask = FALSE

\* no session has been before this one
InitHand ==
    /\ created = 0
    /\ prev_cap = "none"
    /\ prev_wrk = "none"
    /\ prev_start = None
    /\ prev_predictions = <<>>
    /\ actedLate = FALSE

\* neither _adjust nor _update_access is under way
InitSnap ==
    /\ adj_preds = <<>>
    /\ adj_i = 1
    /\ adjusted = <<>>
    /\ tick_preds = <<>>
    /\ lastComplete = <<>>

InitAccess ==
    now = StartTime /\ InitFields /\ InitHist /\ InitPipe /\ InitMain /\ InitHand /\ InitSnap

\* one iteration of the capture loop reaches _update_access
Tick ==
    /\ cap_pc = "head" /\ running
    /\ UpdateAccess
    /\ TickHistory
    /\ UNCHANGED <<now, predictions, last_infer, running, pipeVars, pipeHist>>
    /\ UNCHANGED <<sessVars, everMask>>
    /\ UNCHANGED <<handVars, snapVars>>

\* "predictions" arrays of successful answers
RawSnapshots ==
    { <<>>,
      <<Raw("Face-Mask", 95)>>,
      <<Raw("face", 80)>>,
      <<Raw("face-mask", 50)>>,
      <<Raw("face", 20), Raw("person", 90)>>,
      <<Raw("face", 80), Raw("face-mask", 95)>> }

\* the worker publishes: _adjust(preds) ends in self.predictions = adjusted.
\* (last_infer, which _infer sets next, is read by _enqueue alone and is
\* followed in Spec, where the dispatcher is modelled.)
Publish(preds) ==
    /\ cap_pc = "head" /\ wrk_pc = "head"
    /\ ~failing
    /\ ~Adjust(preds).raised
    /\ predictions' = Adjust(preds).out
    /\ everMask' = (everMask \/ HasMask(predictions'))
    /\ ticked' = FALSE
    /\ UNCHANGED <<now, last_infer, last_state, mask_start, access_granted, running, log, sessVars>>
    /\ UNCHANGED <<runStart, grantsInRun, interrupted, failing, everHeld, pipeVars, pipeHist>>
    /\ UNCHANGED <<handVars, snapVars>>

\* from this point on no inference cycle succeeds
StartFailing ==
    /\ ~failing
    /\ failing' = TRUE
    /\ ticked' = FALSE
    /\ UNCHANGED <<now, accessVars, runStart, grantsInRun, interrupted, everHeld, pipeVars, pipeHist>>
    /\ UNCHANGED <<sessVars, everMask>>
    /\ UNCHANGED <<handVars, snapVars>>

AdvanceAccess ==
    /\ now < StartTime + HoldWindow
    /\ now' = now + 1
    /\ ticked' = FALSE
    /\ UNCHANGED <<accessVars, runStart, grantsInRun, interrupted, failing, everHeld, pipeVars, pipeHist>>
    /\ UNCHANGED <<sessVars, everMask>>
    /\ UNCHANGED <<handVars, snapVars>>

NextAccess ==
    \/ Tick
    \/ \E preds \in RawSnapshots : Publish(preds)
    \/ StartFailing
    \/ AdvanceAccess

SpecAccess == InitAccess /\ [][NextAccess]_vars

----------------------------------------------------------------------------
(* The pipeline of one MaskAccessSystem: the capture loop of               *)
(* _process_frames and the worker of _infer_loop, interleaved at the        *)
(* statements that touch shared fields.                                     *)

WorkerJoinTimeout == 10   \* thread.join(timeout=1) of _process_frames

DispatchWindow == 2   \* how long the pipeline is watched, in tenths of a second
MaxFrames == 20       \* frames captured
MaxCapFails == 2      \* captures that fail

\* while self.running: the loop ends once running is false, and
\* thread.join(timeout=1) on the worker begins
CaptureLoopExit ==
    /\ cap_pc = "head" /\ ~running
    /\ cap_pc' = "join"
    /\ det_wake' = now + WorkerJoinTimeout
    /\ ticked' = FALSE
    /\ UNCHANGED <<now, accessVars, runStart, grantsInRun, interrupted, failing, everHeld,
                   queue, frame_idx, wrk_pc, pipeHist>>
    /\ UNCHANGED <<main_pc, wake, deadline, inbox, serial_out, joined, earlyGrant,
                   authorized, signals, everMask>>
    /\ UNCHANGED <<handVars, snapVars>>

\* thread.join(timeout=1) returns, the worker ended or not; _cleanup, and the
\* detector thread ends
CaptureJoined ==
    /\ cap_pc = "join"
    /\ (wrk_pc = "exited" \/ now >= det_wake)
    /\ cap_pc' = "done"
    /\ ticked' = FALSE
    /\ UNCHANGED <<now, accessVars, runStart, grantsInRun, interrupted, failing, everHeld,
                   queue, frame_idx, wrk_pc, pipeHist>>
    /\ UNCHANGED <<sessVars, everMask>>
    /\ UNCHANGED <<handVars, snapVars>>

\* _capture returned None, and the iteration goes on as if it had a frame
CaptureFailCounts ==
    /\ cap_pc = "head" /\ running
    /\ capFails < MaxCapFails
    /\ capFails' = capFails + 1
    /\ frame_idx < MaxFrames
    /\ frame_idx' = frame_idx + 1
    /\ cap_pc' = IF frame_idx' % frame_skip = 0 THEN "enqueue" ELSE "update"
    /\ ticked' = FALSE
    /\ UNCHANGED <<now, accessVars, runStart, grantsInRun, interrupted, failing, everHeld,
                   queue, wrk_pc,
                   prevStart, lastStart, submits, placed, netCalls, encFails, updates>>
    /\ UNCHANGED <<sessVars, everMask>>
    /\ UNCHANGED <<handVars, snapVars>>

\* _capture returned None: continue
CaptureFail ==
    /\ cap_pc = "head" /\ running
    /\ capFails < MaxCapFails
    /\ capFails' = capFails + 1
    /\ ticked' = FALSE
    /\ UNCHANGED <<now, accessVars, runStart, grantsInRun, interrupted, failing, everHeld,
                   pipeVars,
                   prevStart, lastStart, submits, placed, netCalls, encFails, updates>>
    /\ UNCHANGED <<sessVars, everMask>>
    /\ UNCHANGED <<handVars, snapVars>>

\* _capture returned a frame, and every frame goes to _enqueue
CaptureOkEveryFrame ==
    /\ cap_pc = "head" /\ running
    /\ frame_idx < MaxFrames
    /\ frame_idx' = frame_idx + 1
    /\ cap_pc' = "enqueue"
    /\ ticked' = FALSE
    /\ UNCHANGED <<now, accessVars, runStart, grantsInRun, interrupted, failing, everHeld,
                   queue, wrk_pc, pipeHist>>
    /\ UNCHANGED <<sessVars, everMask>>
    /\ UNCHANGED <<handVars, snapVars>>

\* _capture returned a frame: frame_idx += 1, and every frame_skip-th goes to _enqueue
CaptureOk ==
    /\ cap_pc = "head" /\ running
    /\ frame_idx < MaxFrames
    /\ frame_idx' = frame_idx + 1
    /\ cap_pc' = IF frame_idx' % frame_skip = 0 THEN "enqueue" ELSE "update"
    /\ ticked' = FALSE
    /\ UNCHANGED <<now, accessVars, runStart, grantsInRun, interrupted, failing, everHeld,
                   queue, wrk_pc, pipeHist>>
    /\ UNCHANGED <<sessVars, everMask>>
    /\ UNCHANGED <<handVars, snapVars>>

\* _enqueue without the queue.empty() test
EnqueueTestNoEmpty == (now - last_infer) > infer_interval

\* the test of _enqueue
EnqueueTest == Len(queue) = 0 /\ (now - last_infer) > infer_interval

\* _enqueue up to its test: the frame goes on to put, or is dropped
EnqueueCheck ==
    /\ cap_pc = "enqueue"
    /\ submits' = submits + 1
    /\ cap_pc' = IF EnqueueTest THEN "put" ELSE "update"
    /\ ticked' = FALSE
    /\ UNCHANGED <<now, accessVars, runStart, grantsInRun, interrupted, failing, everHeld,
                   queue, frame_idx, wrk_pc, prevStart, lastStart, placed, netCalls, encFails, updates, capFails>>
    /\ UNCHANGED <<sessVars, everMask>>
    /\ UNCHANGED <<handVars, snapVars>>

\* self.queue.put(frame.copy()): returns only when the queue has room
EnqueuePut ==
    /\ cap_pc = "put"
    /\ Len(queue) < 1
    /\ queue' = Append(queue, frame_idx)
    /\ placed' = placed + 1
    /\ cap_pc' = "update"
    /\ ticked' = FALSE
    /\ UNCHANGED <<now, accessVars, runStart, grantsInRun, interrupted, failing, everHeld,
                   frame_idx, wrk_pc, prevStart, lastStart, submits, netCalls, encFails, updates, capFails>>
    /\ UNCHANGED <<sessVars, everMask>>
    /\ UNCHANGED <<handVars, snapVars>>

\* self._update_access() of the iteration
FrameUpdate ==
    /\ cap_pc = "update"
    /\ UpdateAccess
    /\ TickHistory
    /\ cap_pc' = "head"
    /\ updates' = updates + 1
    /\ UNCHANGED <<now, predictions, last_infer, running, queue, frame_idx, wrk_pc,
                   prevStart, lastStart, submits, placed, netCalls, encFails, capFails>>
    /\ UNCHANGED <<sessVars, everMask>>
    /\ UNCHANGED <<handVars, snapVars>>

\* while self.running of _infer_loop
WorkerLoop ==
    /\ wrk_pc = "head"
    /\ wrk_pc' = IF running THEN "get" ELSE "exited"
    /\ ticked' = FALSE
    /\ UNCHANGED <<now, accessVars, runStart, grantsInRun, interrupted, failing, everHeld,
                   queue, frame_idx, cap_pc, pipeHist>>
    /\ UNCHANGED <<sessVars, everMask>>
    /\ UNCHANGED <<handVars, snapVars>>

\* self.queue.get(timeout=0.1) returns the pending frame
WorkerGet ==
    /\ wrk_pc = "get"
    /\ Len(queue) > 0
    /\ queue' = Tail(queue)
    /\ wrk_pc' = "infer"
    /\ ticked' = FALSE
    /\ UNCHANGED <<now, accessVars, runStart, grantsInRun, interrupted, failing, everHeld,
                   frame_idx, cap_pc, pipeHist>>
    /\ UNCHANGED <<sessVars, everMask>>
    /\ UNCHANGED <<handVars, snapVars>>

\* self.queue.get(timeout=0.1) raises Empty: continue
WorkerEmpty ==
    /\ wrk_pc = "get"
    /\ Len(queue) = 0
    /\ wrk_pc' = "head"
    /\ ticked' = FALSE
    /\ UNCHANGED <<now, accessVars, runStart, grantsInRun, interrupted, failing, everHeld,
                   queue, frame_idx, cap_pc, pipeHist>>
    /\ UNCHANGED <<sessVars, everMask>>
    /\ UNCHANGED <<handVars, snapVars>>

\* _infer: imencode fails, return without a call
EncodeFail ==
    /\ wrk_pc = "infer"
    /\ encFails' = encFails + 1
    /\ wrk_pc' = "head"
    /\ ticked' = FALSE
    /\ UNCHANGED <<now, accessVars, runStart, grantsInRun, interrupted, failing, everHeld,
                   queue, frame_idx, cap_pc, prevStart, lastStart, submits, placed, netCalls, updates, capFails>>
    /\ UNCHANGED <<sessVars, everMask>>
    /\ UNCHANGED <<handVars, snapVars>>

\* _infer: self.session.post(...) is issued
StartCall ==
    /\ wrk_pc = "infer"
    /\ prevStart' = lastStart
    /\ lastStart' = <<now>>
    /\ netCalls' = netCalls + 1
    /\ wrk_pc' = "inflight"
    /\ ticked' = FALSE
    /\ UNCHANGED <<now, accessVars, runStart, grantsInRun, interrupted, failing, everHeld,
                   queue, frame_idx, cap_pc, submits, placed, encFails, updates, capFails>>
    /\ UNCHANGED <<sessVars, everMask>>
    /\ UNCHANGED <<handVars, snapVars>>

\* what _infer writes once the backend has answered resp
InferEffect(resp) ==
    LET r == InferResult(resp)
    IN  IF r.raised
        THEN UNCHANGED <<predictions, last_infer, everMask>>
        ELSE /\ predictions' = r.out
             /\ last_infer' = now
             /\ everMask' = (everMask \/ HasMask(r.out))

\* _infer: the call returns (or raises) and _infer_loop goes round
CompleteCall(resp) ==
    /\ wrk_pc = "inflight"
    /\ now - lastStart[1] <= request_timeout
    /\ InferEffect(resp)
    /\ wrk_pc' = "head"
    /\ ticked' = FALSE
    /\ UNCHANGED <<now, last_state, mask_start, access_granted, running, log,
                   runStart, grantsInRun, interrupted, failing, everHeld,
                   queue, frame_idx, cap_pc, pipeHist>>
    /\ UNCHANGED sessVars
    /\ UNCHANGED <<handVars, snapVars>>

\* detector.running = False, written by the orchestrator
StopDetector ==
    /\ running
    /\ running' = FALSE
    /\ ticked' = FALSE
    /\ UNCHANGED <<now, predictions, last_infer, last_state, mask_start, access_granted, log,
                   runStart, grantsInRun, interrupted, failing, everHeld, pipeVars, pipeHist>>
    /\ UNCHANGED <<sessVars, everMask>>
    /\ UNCHANGED <<handVars, snapVars>>

AdvanceDispatch ==
    /\ now < StartTime + DispatchWindow
    /\ now' = now + 1
    /\ ticked' = FALSE
    /\ UNCHANGED <<accessVars, runStart, grantsInRun, interrupted, failing, everHeld, pipeVars, pipeHist>>
    /\ UNCHANGED <<sessVars, everMask>>
    /\ UNCHANGED <<handVars, snapVars>>

Init == now = StartTime /\ InitFields /\ InitHist /\ InitPipe /\ InitMain /\ InitHand /\ InitSnap

Next ==
    \/ CaptureLoopExit
    \/ CaptureJoined
    \/ CaptureFail
    \/ CaptureOk
    \/ EnqueueCheck
    \/ EnqueuePut
    \/ FrameUpdate
    \/ WorkerLoop
    \/ WorkerGet
    \/ WorkerEmpty
    \/ EncodeFail
    \/ StartCall
    \/ \E resp \in Responses : CompleteCall(resp)
    \/ StopDetector
    \/ AdvanceDispatch

Spec == Init /\ [][Next]_vars

----------------------------------------------------------------------------
(* _adjust and _update_access statement by statement: the worker builds and *)
(* publishes a result while the capture loop reads and evaluates one.       *)

\* "predictions" arrays of answers with status 200
SnapshotAnswers ==
    { <<>>,
      <<Raw("Face-Mask", 95)>>,
      <<Raw("face", 80), Raw("Face-Mask", 95)>>,
      <<RawNoBox("face-mask", 95), Raw("face", 20)>>,
      <<Raw("face-mask", 95), RawNotDict>> }

\* the call of _infer has returned data: _adjust(data, dims) begins, adjusted = []
AdjustBegin(data) ==
    /\ wrk_pc = "head"
    /\ wrk_pc' = "adjust"
    /\ adj_preds' = data
    /\ adj_i' = 1
    /\ adjusted' = <<>>
    /\ ticked' = FALSE
    /\ UNCHANGED <<now, accessVars, runStart, grantsInRun, interrupted, failing, everHeld,
                   queue, frame_idx, cap_pc, pipeHist, sessVars, everMask, handVars>>
    /\ UNCHANGED <<tick_preds, lastComplete>>

\* one round of the loop of _adjust with the entry appended to self.predictions
\* itself (self.predictions emptied first) in place of the local list
AdjustEntryInPlace ==
    /\ wrk_pc = "adjust" /\ adj_i <= Len(adj_preds)
    /\ LET p == adj_preds[adj_i]
       IN  IF p.kind # "dict"
           THEN wrk_pc' = "head" /\ UNCHANGED <<adj_i, predictions>>
           ELSE /\ adj_i' = adj_i + 1
                /\ predictions' =
                      IF p.complete
                      THEN Append(IF adj_i = 1 THEN <<>> ELSE predictions,
                                  Det(Lower(p.class), p.conf))
                      ELSE predictions
                /\ UNCHANGED wrk_pc
    /\ ticked' = FALSE
    /\ UNCHANGED <<now, last_infer, last_state, mask_start, access_granted, running, log,
                   runStart, grantsInRun, interrupted, failing, everHeld,
                   queue, frame_idx, cap_pc, pipeHist, sessVars, everMask, handVars>>
    /\ UNCHANGED <<adj_preds, adjusted, tick_preds, lastComplete>>

\* one round of the loop of _adjust: an entry that is no dict raises
\* (AttributeError, caught in _infer), one that lacks a field is skipped
\* (KeyError), any other is appended to adjusted
AdjustEntry ==
    /\ wrk_pc = "adjust" /\ adj_i <= Len(adj_preds)
    /\ LET p == adj_preds[adj_i]
       IN  IF p.kind # "dict"
           THEN wrk_pc' = "head" /\ UNCHANGED <<adj_i, adjusted>>
           ELSE /\ adj_i' = adj_i + 1
                /\ adjusted' = IF p.complete
                               THEN Append(adjusted, Det(Lower(p.class), p.conf))
                               ELSE adjusted
                /\ UNCHANGED wrk_pc
    /\ ticked' = FALSE
    /\ UNCHANGED <<now, accessVars, runStart, grantsInRun, interrupted, failing, everHeld,
                   queue, frame_idx, cap_pc, pipeHist, sessVars, everMask, handVars>>
    /\ UNCHANGED <<adj_preds, tick_preds, lastComplete>>

\* the loop of _adjust is over: self.predictions = adjusted, and back in
\* _infer self.last_infer = time.time()
AdjustAssign ==
    /\ wrk_pc = "adjust" /\ adj_i > Len(adj_preds)
    /\ predictions' = adjusted
    /\ last_infer' = now
    /\ everMask' = (everMask \/ HasMask(adjusted))
    /\ lastComplete' = Adjust(adj_preds).out
    /\ wrk_pc' = "head"
    /\ ticked' = FALSE
    /\ UNCHANGED <<now, last_state, mask_start, access_granted, running, log,
                   runStart, grantsInRun, interrupted, failing, everHeld,
                   queue, frame_idx, cap_pc, pipeHist, sessVars, handVars>>
    /\ UNCHANGED <<adj_preds, adj_i, adjusted, tick_preds>>

\* _update_access: preds = self.predictions
TickRead ==
    /\ cap_pc = "head" /\ running
    /\ tick_preds' = predictions
    /\ cap_pc' = "read"
    /\ ticked' = FALSE
    /\ UNCHANGED <<now, accessVars, runStart, grantsInRun, interrupted, failing, everHeld,
                   queue, frame_idx, wrk_pc, pipeHist, sessVars, everMask, handVars>>
    /\ UNCHANGED <<adj_preds, adj_i, adjusted, lastComplete>>

\* _update_access from now = time.time() on, over the list it has read
TickEval ==
    /\ cap_pc = "read"
    /\ UpdateAccessWith(tick_preds, now)
    /\ cap_pc' = "head"
    /\ ticked' = TRUE
    /\ UNCHANGED <<now, predictions, last_infer, running,
                   runStart, grantsInRun, interrupted, failing, everHeld,
                   queue, frame_idx, wrk_pc, pipeHist, sessVars, everMask, handVars>>
    /\ UNCHANGED <<adj_preds, adj_i, adjusted, tick_preds, lastComplete>>

NextSnapshot ==
    \/ \E data \in SnapshotAnswers : AdjustBegin(data)
    \/ AdjustEntry
    \/ AdjustAssign
    \/ TickRead
    \/ TickEval
    \/ AdvanceDispatch

SpecSnapshot == Init /\ [][NextSnapshot]_vars

----------------------------------------------------------------------------
(* The orchestrator: main() of projeto_camera.py, with the detector thread  *)
(* (MaskAccessSystem.start) it runs for each authorized TAG.  The code of   *)
(* main between two sleeps takes no time; a sleep ends when it is due.      *)
(* Every duration of main is a multiple of its poll sleep, and the clock    *)
(* is followed on that grid.                                                *)

LcdDelay == 10          \* time.sleep(1) after the LCD prompt
SessionDeadline == 100  \* deadline = time.time() + 10
PollInterval == 2       \* time.sleep(0.2)
JoinTimeout == 10       \* det_thr.join(timeout=1)
RestDelay == 20         \* time.sleep(1), print, time.sleep(1)
DeniedDelay == 10       \* time.sleep(1) after an unregistered TAG
CameraDelay == 10       \* time.sleep(1) of _init_camera

SessionWindow == 152    \* how long the orchestrator is watched, in tenths of a second
MaxTags == 1            \* TAG lines presented

Tags == {"A1B2", "FFFF"}
\* the rows of table tags: tag_autorizada(tag) finds a row
Registered == {"A1B2"}

tag_autorizada(tag) == tag \in Registered

\* main() at its first ler_tag: no MaskAccessSystem exists and no thread of one;
\* the TAG lines of inbox are waiting on the serial port
InitSession ==
    /\ now = StartTime /\ InitFields /\ InitHist /\ InitHand /\ InitSnap
    /\ queue = <<>> /\ frame_idx = 0
    /\ cap_pc = "none" /\ wrk_pc = "none"
    /\ prevStart = None /\ lastStart = None
    /\ submits = 0 /\ placed = 0 /\ netCalls = 0 /\ encFails = 0
    /\ updates = 0 /\ capFails = 0
    /\ main_pc = "read"
    /\ wake = 0
    /\ deadline = 0
    /\ inbox \in UNION {[1..n -> Tags] : n \in 0..MaxTags}
    /\ inboxLate = [i \in 1..Len(inbox) |-> FALSE]
    /\ arrived = Len(inbox)
    /\ serial_out = <<>>
    /\ det_wake = 0
    /\ joined = FALSE
    /\ authorized = FALSE
    /\ signals = 0
    /\ earlyGrant = FALSE
    /\ everMask = FALSE

\* "predictions" arrays of successful answers within a session
SessionSnapshots ==
    { <<>>, <<Raw("Face-Mask", 95)>>, <<Raw("face", 80)>> }

detVars == <<predictions, last_infer, last_state, mask_start, access_granted, running, log,
             queue, frame_idx, cap_pc, wrk_pc, det_wake, everMask, earlyGrant>>

\* the unregistered branch without its continue: main goes on to the LCD prompt
ReadUnregisteredNoContinue ==
    /\ main_pc = "read" /\ inbox # <<>>
    /\ ~tag_autorizada(Head(inbox))
    /\ inbox' = Tail(inbox)
    /\ serial_out' = Append(serial_out, "ACESSO:NEGADO")
    /\ main_pc' = "lcd"
    /\ wake' = now + DeniedDelay + LcdDelay
    /\ UNCHANGED <<now, detVars, histVars, pipeHist, deadline, joined>>
    /\ authorized' = FALSE
    /\ signals' = 1
    /\ inboxLate' = Tail(inboxLate)
    /\ actedLate' = (actedLate \/ Head(inboxLate))
    /\ UNCHANGED <<created, prev_cap, prev_wrk, prev_start, prev_predictions, arrived, snapVars>>

\* arduino.ler_tag() returns a TAG that tag_autorizada does not find
ReadUnregistered ==
    /\ main_pc = "read" /\ inbox # <<>>
    /\ ~tag_autorizada(Head(inbox))
    /\ inbox' = Tail(inbox)
    /\ serial_out' = Append(serial_out, "ACESSO:NEGADO")
    /\ main_pc' = "denied"
    /\ wake' = now + DeniedDelay
    /\ UNCHANGED <<now, detVars, histVars, pipeHist, deadline, joined>>
    /\ authorized' = FALSE
    /\ signals' = 1
    /\ inboxLate' = Tail(inboxLate)
    /\ actedLate' = (actedLate \/ Head(inboxLate))
    /\ UNCHANGED <<created, prev_cap, prev_wrk, prev_start, prev_predictions, arrived, snapVars>>

\* arduino.ler_tag() returns a registered TAG: the LCD prompt and its sleep
ReadRegistered ==
    /\ main_pc = "read" /\ inbox # <<>>
    /\ tag_autorizada(Head(inbox))
    /\ inbox' = Tail(inbox)
    /\ serial_out' = Append(serial_out, "LCD")
    /\ main_pc' = "lcd"
    /\ wake' = now + LcdDelay
    /\ joined' = FALSE
    /\ UNCHANGED <<now, detVars, histVars, pipeHist, deadline>>
    /\ authorized' = TRUE
    /\ signals' = 0
    /\ inboxLate' = Tail(inboxLate)
    /\ actedLate' = (actedLate \/ Head(inboxLate))
    /\ UNCHANGED <<created, prev_cap, prev_wrk, prev_start, prev_predictions, arrived, snapVars>>

\* the sleep after an unregistered TAG ends: continue
DeniedDone ==
    /\ main_pc = "denied" /\ now >= wake
    /\ main_pc' = "read"
    /\ UNCHANGED <<now, detVars, histVars, pipeHist, wake, deadline, inbox, serial_out, joined>>
    /\ UNCHANGED <<authorized, signals>>
    /\ UNCHANGED <<handVars, snapVars>>

\* detector = MaskAccessSystem(cfg); det_thr.start(); deadline = time.time() + 10.
\* The name detector now refers to the new object; the object of the session
\* before, and what is left of its threads, are followed in the prev_ variables.
CreateDetector ==
    /\ main_pc = "lcd" /\ now >= wake
    /\ predictions' = <<>>
    /\ last_infer' = 0
    /\ last_state' = "None"
    /\ mask_start' = None
    /\ access_granted' = FALSE
    /\ running' = TRUE
    /\ queue' = <<>>
    /\ frame_idx' = 0
    /\ cap_pc' = "init"
    /\ wrk_pc' = "none"
    /\ det_wake' = now + CameraDelay
    /\ everMask' = FALSE
    /\ earlyGrant' = FALSE
    /\ deadline' = now + SessionDeadline
    /\ main_pc' = "poll"
    /\ wake' = now
    /\ UNCHANGED <<now, log, histVars, pipeHist, inbox, serial_out, joined>>
    /\ UNCHANGED <<authorized, signals>>
    /\ created' = created + 1
    /\ prev_cap' = cap_pc
    /\ prev_wrk' = wrk_pc
    /\ prev_start' = lastStart
    \* detector is rebound: the object of the session before stays alive only
    \* while one of its threads still runs
    /\ prev_predictions' = IF wrk_pc = "inflight" \/ cap_pc \notin {"none", "done"}
                         THEN predictions ELSE <<>>
    /\ UNCHANGED <<inboxLate, actedLate, arrived, snapVars>>

\* _init_camera raises RuntimeError: start() reports it, cleans up and returns
CameraFail ==
    /\ cap_pc = "init"
    /\ cap_pc' = "done"
    /\ UNCHANGED <<now, accessVars, histVars, queue, frame_idx, wrk_pc, pipeHist, sessVars, everMask>>
    /\ UNCHANGED <<handVars, snapVars>>

\* _init_camera returns after its sleep: _process_frames begins and starts
\* the worker thread
CameraReady ==
    /\ cap_pc = "init" /\ now >= det_wake
    /\ cap_pc' = "head"
    /\ wrk_pc' = "head"
    /\ UNCHANGED <<now, accessVars, histVars, queue, frame_idx, pipeHist, sessVars, everMask>>
    /\ UNCHANGED <<handVars, snapVars>>

\* the worker's loop test finds running false: _infer_loop returns
WorkerExit == ~running /\ WorkerLoop

\* one iteration of the capture loop reaches _update_access
SessionTick ==
    /\ cap_pc = "head" /\ running
    /\ UpdateAccess
    /\ earlyGrant' = (earlyGrant \/
                        (~access_granted /\ access_granted' /\ now + PollInterval < deadline))
    /\ UNCHANGED <<now, predictions, last_infer, running, histVars, pipeVars, pipeHist,
                   main_pc, wake, deadline, inbox, serial_out, det_wake, joined, everMask,
                   authorized, signals>>
    /\ UNCHANGED <<handVars, snapVars>>

\* the poll loop without its break: liberar_acesso, then the next round
PollGrantedNoBreak ==
    /\ main_pc = "poll" /\ now >= wake
    /\ now < deadline
    /\ access_granted
    /\ serial_out' = Append(serial_out, "ACESSO:OK")
    /\ wake' = now + PollInterval
    /\ signals' = signals + 1
    /\ UNCHANGED <<now, detVars, histVars, pipeHist, main_pc, deadline, inbox, joined, authorized>>
    /\ UNCHANGED <<handVars, snapVars>>

\* the poll loop finds time left and detector.access_granted true: liberar_acesso, break
PollGranted ==
    /\ main_pc = "poll" /\ now >= wake
    /\ now < deadline
    /\ access_granted
    /\ serial_out' = Append(serial_out, "ACESSO:OK")
    /\ main_pc' = "stop"
    /\ UNCHANGED <<now, detVars, histVars, pipeHist, wake, deadline, inbox, joined>>
    /\ signals' = signals + 1
    /\ UNCHANGED authorized
    /\ UNCHANGED <<handVars, snapVars>>

\* the poll loop finds time left and no grant: time.sleep(0.2)
PollSleep ==
    /\ main_pc = "poll" /\ now >= wake
    /\ now < deadline
    /\ ~access_granted
    /\ wake' = now + PollInterval
    /\ UNCHANGED <<now, detVars, histVars, pipeHist, main_pc, deadline, inbox, serial_out, joined>>
    /\ UNCHANGED <<authorized, signals>>
    /\ UNCHANGED <<handVars, snapVars>>

\* the poll loop finds the deadline passed: the else branch, negar_acesso
PollDeadline ==
    /\ main_pc = "poll" /\ now >= wake
    /\ ~(now < deadline)
    /\ serial_out' = Append(serial_out, "ACESSO:NEGADO")
    /\ main_pc' = "stop"
    /\ UNCHANGED <<now, detVars, histVars, pipeHist, wake, deadline, inbox, joined>>
    /\ signals' = signals + 1
    /\ UNCHANGED authorized
    /\ UNCHANGED <<handVars, snapVars>>

\* detector.running = False, and det_thr.join(timeout=1) begins
MainStop ==
    /\ main_pc = "stop"
    /\ running' = FALSE
    /\ main_pc' = "join"
    /\ wake' = now + JoinTimeout
    /\ UNCHANGED <<now, predictions, last_infer, last_state, mask_start, access_granted, log,
                   queue, frame_idx, cap_pc, wrk_pc, det_wake, everMask, earlyGrant,
                   histVars, pipeHist, deadline, inbox, serial_out, joined>>
    /\ UNCHANGED <<authorized, signals>>
    /\ UNCHANGED <<handVars, snapVars>>

\* det_thr.join(timeout=1) returns: the thread has ended or the timeout has passed
JoinReturn ==
    /\ main_pc = "join"
    /\ (cap_pc = "done" \/ now >= wake)
    /\ joined' = TRUE
    /\ main_pc' = "rest"
    /\ wake' = now + RestDelay
    /\ UNCHANGED <<now, detVars, histVars, pipeHist, deadline, inbox, serial_out>>
    /\ UNCHANGED <<authorized, signals>>
    /\ UNCHANGED <<handVars, snapVars>>

\* the two sleeps at the end of the session are over: back to ler_tag
RestDone ==
    /\ main_pc = "rest" /\ now >= wake
    /\ main_pc' = "read"
    /\ UNCHANGED <<now, detVars, histVars, pipeHist, wake, deadline, inbox, serial_out, joined>>
    /\ UNCHANGED <<authorized, signals>>
    /\ UNCHANGED <<handVars, snapVars>>

\* main is in a sleep or a timed wait that is not yet due (once main waits for
\* a TAG and none is pending, nothing more happens and the run is over)
MainWaits ==
    \/ main_pc \in {"denied", "lcd", "poll", "rest"} /\ now < wake
    \/ main_pc = "join" /\ now < wake /\ cap_pc # "done"

\* a thread of the detector stands at the end of the sleep of _init_camera, at
\* a loop test that ends its loop, or in a join that can return.  As in main,
\* a sleep ends when it is due, and an iteration of either loop takes no time
\* on the clock's grid (the longest wait in one is queue.get(timeout=0.1)), so
\* these steps are taken before the clock moves on.
ThreadStepDue ==
    \/ cap_pc = "init" /\ now >= det_wake
    \/ cap_pc = "head" /\ ~running
    \/ wrk_pc = "head" /\ ~running
    \/ cap_pc = "join" /\ (wrk_pc = "exited" \/ now >= det_wake)

AdvanceSession ==
    /\ now < StartTime + SessionWindow
    /\ MainWaits
    /\ ~ThreadStepDue
    /\ now' = now + PollInterval
    /\ UNCHANGED <<accessVars, histVars, pipeVars, pipeHist, sessVars, everMask>>
    /\ UNCHANGED <<handVars, snapVars>>

NextSession ==
    \/ ReadUnregistered
    \/ ReadRegistered
    \/ DeniedDone
    \/ CreateDetector
    \/ CameraFail
    \/ CameraReady
    \/ SessionTick
    \/ \E preds \in SessionSnapshots : Publish(preds)
    \/ CaptureLoopExit
    \/ WorkerExit
    \/ CaptureJoined
    \/ PollGranted
    \/ PollSleep
    \/ PollDeadline
    \/ MainStop
    \/ JoinReturn
    \/ RestDone
    \/ AdvanceSession

SpecSession == InitSession /\ [][NextSession]_vars

----------------------------------------------------------------------------
(* One session after another: TAG lines arrive on the serial port at any    *)
(* time, and the worker of a session can be inside a network call when main *)
(* ends the session.  The calls that return while main still polls are the  *)
(* Publish steps; a call that running = False finds in flight is followed   *)
(* from its start, and it starts as late as it can: when main has left the  *)
(* poll loop and not yet written running (an earlier start only shortens    *)
(* the time the call has left).                                             *)

HandoverWindow == 190   \* how long the sessions are watched, in tenths of a second
MaxArrivals == 2        \* TAG lines that arrive

\* main is between reading a registered TAG and the end of that session's teardown
SessionActive == authorized /\ main_pc \in {"lcd", "poll", "stop", "join", "rest"}

InitHandover == InitSession /\ inbox = <<>>

\* the reader sends a line "TAG:<tag>": the serial port's input buffer keeps it
\* until ler_tag reads it (ser.in_waiting, ser.readline)
TagArrives(tag) ==
    /\ arrived < MaxArrivals
    /\ arrived' = arrived + 1
    /\ inbox' = Append(inbox, tag)
    /\ inboxLate' = Append(inboxLate, SessionActive)
    /\ UNCHANGED <<now, detVars, histVars, pipeHist, main_pc, wake, deadline, serial_out,
                   joined, authorized, signals>>
    /\ UNCHANGED <<created, prev_cap, prev_wrk, prev_start, prev_predictions, actedLate, snapVars>>

\* _infer_loop takes a frame and _infer posts it: self.session.post(...) is issued
WorkerCallStart ==
    /\ wrk_pc = "head" /\ running
    /\ cap_pc = "head"
    /\ main_pc = "stop"
    /\ wrk_pc' = "inflight"
    /\ lastStart' = <<now>>
    /\ UNCHANGED <<now, accessVars, histVars, queue, frame_idx, cap_pc,
                   prevStart, submits, placed, netCalls, encFails, updates, capFails,
                   sessVars, everMask>>
    /\ UNCHANGED <<handVars, snapVars>>

\* "predictions" arrays of successful answers while main polls in the n-th
\* session: the first person wears a mask, those who follow do not
HandoverSnapshots(n) ==
    IF n = 1 THEN { <<Raw("Face-Mask", 95)>> } ELSE { <<Raw("face", 80)>> }

\* answers of the backend to a call that outlives its session
HandoverResponses ==
    { Resp("timeout", 0, "none", FALSE, <<>>),
      OkResp(<<Raw("Face-Mask", 95)>>) }

\* the call of the worker of the session before, with detector a global that
\* every MaskAccessSystem method writes through
PrevCallEndShared(resp) ==
    /\ prev_wrk = "inflight"
    /\ now - prev_start[1] <= request_timeout
    /\ predictions' = IF InferResult(resp).raised THEN predictions
                                                   ELSE InferResult(resp).out
    /\ prev_wrk' = "exited"
    /\ UNCHANGED <<now, last_infer, last_state, mask_start, access_granted, running, log,
                   histVars, pipeVars, pipeHist, sessVars, everMask>>
    /\ UNCHANGED <<created, prev_cap, prev_start, prev_predictions, inboxLate, actedLate,
                   arrived, snapVars>>

\* the call of the worker of the session before returns (or raises): _adjust
\* writes self.predictions of that worker's own MaskAccessSystem, and its
\* loop test finds that object's running false
PrevCallEnd(resp) ==
    /\ prev_wrk = "inflight"
    /\ now - prev_start[1] <= request_timeout
    /\ prev_predictions' = IF InferResult(resp).raised THEN prev_predictions
                                                        ELSE InferResult(resp).out
    /\ prev_wrk' = "exited"
    /\ UNCHANGED <<now, accessVars, histVars, pipeVars, pipeHist, sessVars, everMask>>
    /\ UNCHANGED <<created, prev_cap, prev_start, inboxLate, actedLate, arrived, snapVars>>

\* a network call has reached request_timeout and must return now
CallDue ==
    \/ wrk_pc = "inflight" /\ now + PollInterval - lastStart[1] > request_timeout
    \/ prev_wrk = "inflight" /\ now + PollInterval - prev_start[1] > request_timeout

AdvanceHandover ==
    /\ now < StartTime + HandoverWindow
    /\ MainWaits
    /\ ~ThreadStepDue
    /\ ~CallDue
    /\ now' = now + PollInterval
    /\ UNCHANGED <<accessVars, histVars, pipeVars, pipeHist, sessVars, everMask>>
    /\ UNCHANGED <<handVars, snapVars>>

\* the people who arrive are registered (SpecSession has the unregistered TAG)
NextHandover ==
    \/ \E tag \in Registered : TagArrives(tag)
    \/ ReadRegistered
    \/ CreateDetector
    \/ CameraFail
    \/ CameraReady
    \/ SessionTick
    \/ \E preds \in HandoverSnapshots(created) : Publish(preds)
    \/ WorkerCallStart
    \/ \E resp \in HandoverResponses : CompleteCall(resp)
    \/ \E resp \in HandoverResponses : PrevCallEnd(resp)
    \/ CaptureLoopExit
    \/ WorkerExit
    \/ CaptureJoined
    \/ PollGranted
    \/ PollSleep
    \/ PollDeadline
    \/ MainStop
    \/ JoinReturn
    \/ RestDone
    \/ AdvanceHandover

SpecHandover == InitHandover /\ [][NextHandover]_vars

----------------------------------------------------------------------------
(* Claims about the state machine, checked under SpecAccess *)

\* C1 (as stated): once access_granted is true it is true after every later
\* tick of the session, whatever the tick evaluates.
C1_GrantedSticky == [][access_granted => access_granted']_vars

\* C2: when hasMask has held on every tick from a first tick at t0 up to a tick
\* at t >= t0 + hold_time, the machine is in Granted after the tick at t
\* (last_state = "liberado", access_granted = TRUE); and within one unbroken
\* run of hasMask ticks access_granted goes from false to true at most once.
C2_HoldGrants ==
    /\ grantsInRun <= 1
    /\ (ticked /\ runStart # None /\ now - runStart[1] >= hold_time)
          => (access_granted /\ last_state = "liberado")

C2_Witness ==
    /\ ticked /\ runStart # None /\ now - runStart[1] >= hold_time
    /\ access_granted /\ grantsInRun = 1

\* C3: a tick that evaluates hasFace and not hasMask leaves mask_start = None
\* and last_state = "negado"; and access_granted goes from false to true only
\* on a tick whose unbroken run of hasMask ticks began at least hold_time
\* earlier, so after a reset the hold is measured from the new run's first tick.
C3_ResetThenFullHold ==
    [][ /\ (ticked' /\ HasFace(predictions) /\ ~HasMask(predictions))
            => (mask_start' = None /\ last_state' = "negado")
        /\ (~access_granted /\ access_granted')
            => (ticked' /\ runStart' # None /\ now - runStart'[1] >= hold_time) ]_vars

C3_Witness ==
    /\ interrupted /\ ticked /\ access_granted
    /\ runStart # None /\ now - runStart[1] >= hold_time

\* C7 (as stated, its safety half): once every inference cycle fails,
\* access_granted never again goes from false to true.
C7_NoGrantWhileFailing == [][(failing /\ ~access_granted) => ~access_granted']_vars

\* C15: a tick whose snapshot has neither hasMask nor hasFace leaves
\* mask_start = None and last_state = None (Idle), and it is no denial: it
\* leaves access_granted as it was and logs nothing.
C15_IdleTick ==
    [][ (ticked' /\ ~HasMask(predictions) /\ ~HasFace(predictions))
            => /\ mask_start' = None
               /\ last_state' = "None"
               /\ access_granted' = access_granted
               /\ log' = log ]_vars

\* a tick over a face below its threshold and a detection of another class,
\* after a grant: Idle, and the grant is kept
C15_Witness ==
    /\ ticked /\ predictions # <<>> /\ ~HasMask(predictions) /\ ~HasFace(predictions)
    /\ mask_start = None /\ last_state = "None" /\ access_granted

\* C17 (as stated): no two consecutive logged messages are the same.
C17_NoRepeatedMessage ==
    \A i \in 1..(Len(log) - 1) : log[i] # log[i + 1]

\* the message _update_access passes to _change_state with the state st
MessageOf(st) == IF st = "liberado" THEN "Acesso liberado" ELSE "Acesso negado"

\* C17 (amended): the log changes only on a tick that changes last_state, and
\* then by the one message of the new state; a tick that leaves last_state as
\* it was logs nothing, so a run of ticks that stay in Granted (or in Denied)
\* logs its message once; and every tick that enters Granted or Denied logs
\* (while the log kept here has room).
C17_EdgeTriggered ==
    [][ /\ (log' # log) =>
              (ticked' /\ last_state' # last_state /\ last_state' # "None"
                 /\ log' = Append(log, MessageOf(last_state')))
        /\ (ticked' /\ last_state' = last_state) => log' = log
        /\ (ticked' /\ last_state' # last_state /\ last_state' # "None" /\ Len(log) < MaxLog)
              => log' = Append(log, MessageOf(last_state')) ]_vars

\* Denied, then Idle without a message, then Denied again: the same message twice
C17_Witness ==
    /\ ticked /\ last_state = "negado"
    /\ log = <<"Acesso negado", "Acesso negado">>

\* C19: after every tick the logged state and the flag agree (liberado only
\* with access_granted, negado only without it), and access_granted is true
\* only if some tick of this detector evaluated hasMask at least hold_time
\* after the first tick of its unbroken run of hasMask ticks.
C19_StateAgreesWithFlag ==
    /\ last_state = "liberado" => access_granted
    /\ last_state = "negado" => ~access_granted
    /\ access_granted => everHeld

\* a grant earned by a full hold and withdrawn by a later face-without-mask tick
C19_Witness ==
    /\ ticked /\ everHeld /\ ~access_granted /\ last_state = "negado"
    /\ log = <<"Acesso liberado", "Acesso negado">>

----------------------------------------------------------------------------
(* Claims about the dispatcher, checked under Spec *)

\* C4 (as stated): the start times of any two consecutive network calls of one
\* dispatcher differ by at least infer_interval.
C4_CallsSpaced ==
    prevStart # None => lastStart[1] - prevStart[1] >= infer_interval

\* C5 (as stated): the queue never holds more than one frame, put is never
\* reached with a full queue, and once no frame is pending or in the worker's
\* hands the network calls issued equal the frames placed in the slot.
C5_CallsEqualPlaced ==
    /\ Len(queue) <= 1
    /\ cap_pc = "put" => Len(queue) = 0
    /\ (Len(queue) = 0 /\ wrk_pc # "infer") => netCalls = placed

\* C5 (amended): the queue never holds more than one frame, put is never
\* reached with a full queue, and every frame placed in the slot is still
\* pending, is in the worker's hands, was dropped because imencode failed, or
\* led to exactly one network call; a dropped submit leads to none.
C5_SingleSlot ==
    /\ Len(queue) <= 1
    /\ cap_pc = "put" => Len(queue) = 0
    /\ placed = netCalls + encFails + Len(queue) + (IF wrk_pc = "infer" THEN 1 ELSE 0)
    /\ placed <= submits

\* a second _enqueue found the first frame still pending and dropped its own
C5_Witness ==
    /\ submits = 2 /\ placed = 1 /\ Len(queue) = 1 /\ cap_pc = "update"

\* C6 (as stated): whatever kind of failure ends an inference cycle, self.predictions
\* is the same after _infer as before it, and the worker writes none of
\* mask_start, last_state, access_granted.
C6_FailureKeepsPredictions ==
    [][ \A resp \in FailureResponses :
            CompleteCall(resp) =>
                /\ predictions' = predictions
                /\ UNCHANGED <<mask_start, last_state, access_granted>> ]_vars

\* C16: _enqueue is called for the frames whose frame_idx is a multiple of
\* frame_skip and for no other, and _update_access is called once for every
\* frame captured, submitted or not, whatever the worker has done meanwhile.
C16_SkipAndTick ==
    /\ cap_pc \in {"enqueue", "put"} => frame_idx % frame_skip = 0
    /\ submits = (frame_idx \div frame_skip) - (IF cap_pc = "enqueue" THEN 1 ELSE 0)
    /\ updates = frame_idx - (IF cap_pc \in {"enqueue", "put", "update"} THEN 1 ELSE 0)

\* twenty frames captured and ticked, two of them offered, one of these
\* dropped, and no call made yet
C16_Witness ==
    /\ frame_idx = 2 * frame_skip /\ cap_pc = "head"
    /\ updates = 2 * frame_skip /\ submits = 2 /\ placed = 1 /\ netCalls = 0

\* C18: an iteration of the capture loop in which _capture returns None
\* changes nothing: frame_idx, the pending slot, mask_start, last_state and
\* access_granted are as before, _enqueue and _update_access are not called,
\* and the loop is back at its test of running; and at that test, once
\* running is false, the loop can end whatever captures failed before.
C18_FailedCaptureDropped ==
    /\ [][ capFails' # capFails =>
              /\ UNCHANGED <<frame_idx, queue, mask_start, last_state, access_granted,
                             predictions, submits, updates>>
              /\ ~ticked'
              /\ cap_pc' = "head" ]_vars
    /\ []((cap_pc = "head" /\ ~running) => ENABLED CaptureLoopExit)

\* captures failed while a hold was under way, then running went false and
\* the loop ended
C18_Witness ==
    /\ capFails = MaxCapFails /\ mask_start # None /\ ~access_granted
    /\ ~running /\ cap_pc = "done"

----------------------------------------------------------------------------
(* Claims about the orchestrator, checked under SpecSession *)

Last(seq) == seq[Len(seq)]

\* main has left the poll loop of the session of a registered TAG
Decided == authorized /\ main_pc \in {"stop", "join", "rest", "read"}

\* C8: for a registered TAG main writes exactly one terminal signal, ACESSO:OK
\* or ACESSO:NEGADO: none while it polls, one from the end of the poll loop on;
\* after it, detector.running is false, and det_thr.join has returned before
\* main is back at ler_tag.
C8_OneSignalThenTeardown ==
    /\ signals <= 1
    /\ (authorized /\ main_pc \in {"lcd", "poll"}) => signals = 0
    /\ Decided => (signals = 1 /\ Last(serial_out) \in {"ACESSO:OK", "ACESSO:NEGADO"})
    /\ (authorized /\ main_pc \in {"join", "rest", "read"}) => ~running
    /\ (authorized /\ main_pc \in {"rest", "read"}) => joined

\* the denial path, torn down and back at ler_tag
C8_Witness ==
    /\ authorized /\ main_pc = "read" /\ joined /\ ~running
    /\ signals = 1 /\ Last(serial_out) = "ACESSO:NEGADO"

\* C9 (as stated): if access_granted went true at least one poll interval
\* before the deadline, the session's outcome is ACESSO:OK.  The margin is
\* taken strictly here, so that a poll before the deadline always follows the
\* tick that grants: what refutes this refutes the claim with "at least" too.
C9_EarlyGrantWins ==
    (Decided /\ earlyGrant) => Last(serial_out) = "ACESSO:OK"

\* C10: in a session in which no published snapshot satisfies hasMask,
\* access_granted is never true and the outcome is ACESSO:NEGADO.
C10_NoMaskNoGrant ==
    ~everMask =>
        /\ ~access_granted
        /\ Decided => Last(serial_out) = "ACESSO:NEGADO"

\* a session that saw a face without a mask, decided and torn down
C10_Witness ==
    /\ ~everMask /\ authorized /\ main_pc = "read"
    /\ last_state = "negado" /\ Last(serial_out) = "ACESSO:NEGADO"

\* the lines of out that are the line msg
CountLines(out, msg) == Cardinality({i \in 1..Len(out) : out[i] = msg})

\* C12: a TAG that tag_autorizada does not find is answered by one
\* ACESSO:NEGADO and nothing else: main stays out of the detection path (it is
\* at ler_tag or in the sleep of the denial), the line it wrote for that TAG
\* is ACESSO:NEGADO and the only one, and a MaskAccessSystem has been created
\* only for a TAG that got the LCD prompt.
C12_UnregisteredDenied ==
    /\ ~authorized => main_pc \in {"read", "denied"}
    /\ (~authorized /\ signals > 0) => (signals = 1 /\ Last(serial_out) = "ACESSO:NEGADO")
    /\ created <= CountLines(serial_out, "LCD")
    /\ CountLines(serial_out, "ACESSO:OK") <= created

\* an unregistered TAG answered, main back at ler_tag, no detector ever made
C12_Witness ==
    /\ ~authorized /\ signals = 1 /\ main_pc = "read"
    /\ serial_out = <<"ACESSO:NEGADO">> /\ created = 0 /\ cap_pc = "none" /\ wrk_pc = "none"

----------------------------------------------------------------------------
(* Claims about consecutive sessions, checked under SpecHandover *)

\* C11 (as stated): when main starts the pipeline of a session, every task of
\* the session before has ended: its detector thread (the capture loop) and
\* its inference worker.
C11_NoTaskSurvives ==
    /\ prev_cap \in {"none", "done"}
    /\ prev_wrk \in {"none", "exited"}

\* C13 (as stated): a TAG line that arrives while a session is active is
\* ignored: main never acts on it, neither by a signal nor by a session.
C13_LateTagIgnored == ~actedLate

\* C20: a session starts with a fresh MaskAccessSystem (no predictions, no
\* hold timer, no grant); a step of the worker of the session before changes
\* nothing of the new object and nothing main has written; and from the second
\* session on, as in the first, without a snapshot of its own that satisfies
\* hasMask a session has no grant and ends with ACESSO:NEGADO.
C20_SessionsIsolated ==
    [][ /\ (created' # created) =>
              (predictions' = <<>> /\ mask_start' = None /\ ~access_granted'
                 /\ last_state' = "None" /\ ~everMask')
        /\ (prev_wrk = "inflight" /\ prev_wrk' # "inflight") =>
              UNCHANGED <<predictions, mask_start, last_state, access_granted, everMask,
                          serial_out, main_pc>>
        /\ (created' >= 2 /\ ~everMask') =>
              (~access_granted' /\ (Decided' => Last(serial_out') = "ACESSO:NEGADO")) ]_vars

\* the second session has been denied on its own evidence, a face without a
\* mask, after the worker of the first, granted, session had started a call
\* and has ended with a mask result in its own object
C20_Witness ==
    /\ created = 2 /\ prev_start # None /\ prev_wrk = "exited"
    /\ HasMask(prev_predictions) /\ CountLines(serial_out, "ACESSO:OK") = 1
    /\ ~everMask /\ last_state = "negado" /\ Decided /\ Last(serial_out) = "ACESSO:NEGADO"

----------------------------------------------------------------------------
(* Claims about the snapshot, checked under SpecSnapshot *)

\* the lists _adjust makes of whole answers, and the list of __init__
WholeResults ==
    {<<>>} \cup {Adjust(data).out : data \in {d \in SnapshotAnswers : ~Adjust(d).raised}}

\* C14: self.predictions is at every moment the whole result of the last
\* inference that completed successfully (or the initial empty list), and the
\* list a tick has read and evaluates is a whole result as well: never a list
\* still being built, never a mix of two results.
C14_SnapshotWhole ==
    /\ predictions = lastComplete
    /\ predictions \in WholeResults
    /\ tick_preds \in WholeResults

\* a tick evaluates the list it read while _adjust is half way through the
\* next answer and another result has been published since the read
C14_Witness ==
    /\ cap_pc = "read" /\ wrk_pc = "adjust" /\ adj_i = 2 /\ Len(adjusted) = 1
    /\ tick_preds # <<>> /\ tick_preds # predictions

====
